---- MODULE Spec2Model ----
(***************************************************************************)
(* Model of src/knowledge_scrapers/documentation_scraper.rs:               *)
(* DocumentationScraperRust, its crawl (scrape_documentation_site), the    *)
(* page task (scrape_documentation_page), link discovery                   *)
(* (discover_documentation_links), the report statistics                   *)
(* (analyze_documentation), the language detection of                      *)
(* extract_code_examples and extract_section_info.                         *)
(*                                                                         *)
(* A URL is a record [host, path].  An Option is a sequence of length 0    *)
(* (None / Err) or 1 (Some / Ok).  Every .await of a page task is a        *)
(* suspension point and so ends an action.                                 *)
(***************************************************************************)
EXTENDS Integers, Sequences, FiniteSets, TLC

(* ------------------------------ bounds --------------------------------- *)

\* largest max_pages argument of scrape_documentation_site
MaxPagesBound == 2
\* largest number of navigation elements in a discovery document
MaxNav == 2
\* largest max_concurrent given to new()
MaxConcurrentBound == 2
\* number of calls of scrape_documentation_site on one scraper
MaxRuns == 2
\* longest page list handed to analyze_documentation
MaxAnalyzed == 3

(* ------------------------- program constants --------------------------- *)

\* `content.len() < 100`
MIN_CONTENT_LENGTH == 100
\* usize::MAX, the value of `0 - 1` on usize when overflow checks are off.
\* TLC's integers are 32 bits wide, so the model takes the largest of them;
\* as in the program it exceeds the length of every list.
USIZE_MAX == 2147483647

(* ------------------------------- URLs ---------------------------------- *)

DocsHost == "docs.example.com"
OtherHost == "other.example.com"
Hosts == {DocsHost, OtherHost}
Paths == {"/", "/a"}
Urls == [host : Hosts, path : Paths]
Url(h, p) == [host |-> h, path |-> p]

\* the href attribute of a navigation element:
\*   none      the element has no href
\*   invalid   an href Url::join rejects
\*   path      a reference resolved on the base URL's host
\*   absolute  a reference that names its own host
NoHref == [kind |-> "none", host |-> "", path |-> ""]
InvalidHref == [kind |-> "invalid", host |-> "", path |-> ""]
Hrefs ==
    {NoHref, InvalidHref}
        \cup [kind : {"path"}, host : {""}, path : Paths]
        \cup [kind : {"absolute"}, host : Hosts, path : {"/a"}]

\* Url::parse(&base_url).and_then(|base| base.join(href))
url_join(base_url, href) ==
    CASE href.kind = "path" -> <<Url(base_url.host, href.path)>>
      [] href.kind = "absolute" -> <<Url(href.host, href.path)>>
      [] OTHER -> <<>>

Min(a, b) == IF a < b THEN a ELSE b

\* Iterator::take(n) / Vec::truncate(n)
take(s, n) == SubSeq(s, 1, Min(Len(s), n))

RECURSIVE SeqsUpTo(_, _)
SeqsUpTo(S, n) ==
    IF n = 0 THEN {<<>>}
    ELSE LET shorter == SeqsUpTo(S, n - 1)
         IN  shorter \cup {Append(s, x) : s \in {t \in shorter : Len(t) = n - 1}, x \in S}

(* --------------------------- link discovery ---------------------------- *)

same_host_always(base_url, link) == TRUE

\* `base_parsed.host() == link_parsed.host()`
same_host(base_url, link) == base_url.host = link.host

RECURSIVE nav_loop(_, _, _, _, _)
\* the `for element in document.select(&nav_selector)` loop, from element i on
nav_loop(elements, i, base_url, max_pages, doc_links) ==
    IF i > Len(elements) THEN doc_links
    ELSE IF Len(doc_links) >= max_pages THEN doc_links
    ELSE LET href == elements[i]
             full_url == url_join(base_url, href)
         IN  IF href.kind = "none" \/ full_url = <<>>
             THEN nav_loop(elements, i + 1, base_url, max_pages, doc_links)
             ELSE IF same_host(base_url, full_url[1])
             THEN nav_loop(elements, i + 1, base_url, max_pages,
                           Append(doc_links, full_url[1]))
             ELSE nav_loop(elements, i + 1, base_url, max_pages, doc_links)

\* what the discovery fetch of the base URL can give
FailedResponses == [kind : {"error", "status", "body_error"}, nav : {<<>>}]
Documents == SeqsUpTo(Hrefs, MaxNav)
Responses == FailedResponses \cup [kind : {"ok"}, nav : Documents]

\* the responses the crawl's discovery fetch draws from: a same-host link to
\* the base URL itself, one to another page, and a link to another host
CrawlHrefs ==
    [kind : {"path"}, host : {""}, path : Paths]
        \cup {[kind |-> "absolute", host |-> OtherHost, path |-> "/a"]}
CrawlResponses == FailedResponses \cup [kind : {"ok"}, nav : SeqsUpTo(CrawlHrefs, MaxNav)]

discover_documentation_links(response, base_url, max_pages) ==
    IF response.kind /= "ok" THEN <<>>
    ELSE take(nav_loop(response.nav, 1, base_url, max_pages, <<>>), max_pages)

(* ------------------------------ the crawl ------------------------------ *)

VARIABLES
    max_concurrent,   \* self.max_concurrent
    visited_urls,     \* self.visited_urls
    pc,               \* "idle" | "fanout" | "panicked"
    run,              \* calls of scrape_documentation_site so far
    max_pages,        \* argument of the current (last) call
    discovery,        \* kind of the discovery response of this call
    discovered_urls,  \* what discover_documentation_links returned
    doc_urls,         \* the frontier
    permits,          \* permits left in the semaphore
    task_pc,          \* the .await each page task is suspended at, or "done"
    outcome,          \* what each page task returned
    requests,         \* client.get(..).send() calls of this call
    visited_at_start, \* visited_urls when this call began
    scraped_pages,    \* the list the call returned
    overtaken         \* a task of this call returned before one ahead of it in the frontier

VARIABLES
    nav_response,     \* discover_documentation_links: the response to its fetch
    nav_base,         \* its base_url argument
    nav_limit,        \* its max_pages argument
    nav_links,        \* what it returned
    nav_called        \* it has returned

VARIABLES
    an_pages,         \* analyze_documentation: its pages argument
    analysis,         \* the map it returned
    an_called         \* it has returned

VARIABLES
    code_classes,     \* extract_code_examples: element.value().classes(), as iterated
    language,         \* the language it detected
    lang_called       \* the detection has run

VARIABLES
    breadcrumbs,      \* extract_section_info: trimmed texts of the breadcrumb elements
    path_segments,    \* parsed_url.path_segments() of its url argument
    section_info,     \* the pair (section, subsection) it returned
    sec_called        \* it has returned

language_vars == <<code_classes, language, lang_called>>
section_vars == <<breadcrumbs, path_segments, section_info, sec_called>>

discover_vars == <<nav_response, nav_base, nav_limit, nav_links, nav_called>>
analyze_vars == <<an_pages, analysis, an_called>>

crawl_vars ==
    <<max_concurrent, visited_urls, pc, run, max_pages, discovery,
      discovered_urls, doc_urls, permits, task_pc, outcome, requests,
      visited_at_start, scraped_pages, overtaken>>

base_url == Url(DocsHost, "/")

Tasks == 1 .. Len(doc_urls)

\* the bodies a fetched page can have: the length of the extracted content
\* and the number of code blocks
PageBodies ==
    { [content_len |-> 0, code_examples |-> 0],
      [content_len |-> 99, code_examples |-> 1],
      [content_len |-> 100, code_examples |-> 0],
      [content_len |-> 150, code_examples |-> 1] }

Pending == [kind |-> "pending", url |-> base_url, content_len |-> 0, code_examples |-> 0]
\* a task that returned None, and why
Skipped(why, url) == [kind |-> why, url |-> url, content_len |-> 0, code_examples |-> 0]
SkippedShort(url, body) ==
    [kind |-> "short", url |-> url, content_len |-> body.content_len,
     code_examples |-> body.code_examples]
\* a task that returned Some(DocumentationPage)
Page(url, body) ==
    [kind |-> "page", url |-> url, content_len |-> body.content_len,
     code_examples |-> body.code_examples]

CrawlInit ==
    /\ max_concurrent \in 0 .. MaxConcurrentBound
    /\ visited_urls = {}
    /\ pc = "idle"
    /\ run = 0
    /\ max_pages = 0
    /\ discovery = "none"
    /\ discovered_urls = <<>>
    /\ doc_urls = <<>>
    /\ permits = 0
    /\ task_pc = <<>>
    /\ outcome = <<>>
    /\ requests = 0
    /\ visited_at_start = {}
    /\ scraped_pages = <<>>
    /\ overtaken = FALSE

discover_limit_off_by_one(n) == n

\* `max_pages - 1` on usize with overflow checks off
discover_limit(n) == IF n = 0 THEN USIZE_MAX ELSE n - 1

without_base(base, discovered, n) == take(discovered, n)

\* vec![base_url] ; extend(discovered_urls) ; truncate(max_pages)
frontier(base, discovered, n) == take(<<base>> \o discovered, n)

\* scrape_documentation_site called with max_pages = 0 in a build with overflow
\* checks: `max_pages - 1` panics
ScrapeSitePanic ==
    /\ pc = "idle"
    /\ run < MaxRuns
    /\ pc' = "panicked"
    /\ run' = run + 1
    /\ max_pages' = 0
    /\ discovery' = "none"
    /\ discovered_urls' = <<>>
    /\ doc_urls' = <<>>
    /\ permits' = 0
    /\ task_pc' = <<>>
    /\ outcome' = <<>>
    /\ requests' = 0
    /\ visited_at_start' = visited_urls
    /\ scraped_pages' = <<>>
    /\ overtaken' = FALSE
    /\ UNCHANGED <<discover_vars, analyze_vars, language_vars, section_vars>>
    /\ UNCHANGED <<max_concurrent, visited_urls>>

\* scrape_documentation_site up to the creation of the page tasks
ScrapeSiteStart ==
    /\ pc = "idle"
    /\ run < MaxRuns
    /\ \E n \in 0 .. MaxPagesBound :
          \E found \in {<<response.kind,
                          discover_documentation_links(response, base_url, discover_limit(n))>> :
                            response \in CrawlResponses} :
              LET discovered == found[2]
                  urls == frontier(base_url, discovered, n)
              IN  /\ max_pages' = n
                  /\ discovery' = found[1]
                  /\ discovered_urls' = discovered
                  /\ doc_urls' = urls
                  /\ task_pc' = [i \in 1 .. Len(urls) |-> "acquire"]
                  /\ outcome' = [i \in 1 .. Len(urls) |-> Pending]
    /\ pc' = "fanout"
    /\ run' = run + 1
    /\ permits' = max_concurrent
    /\ requests' = 1
    /\ visited_at_start' = visited_urls
    /\ scraped_pages' = <<>>
    /\ overtaken' = FALSE
    /\ UNCHANGED <<discover_vars, analyze_vars, language_vars, section_vars>>
    /\ UNCHANGED <<max_concurrent, visited_urls>>

acquire_ready_always(available) == TRUE

\* Semaphore::acquire is ready when a permit is left
acquire_ready(available) == available > 0

\* `semaphore.acquire().await` is over: the task holds a permit
Acquire(i) ==
    /\ pc = "fanout"
    /\ task_pc[i] = "acquire"
    /\ acquire_ready(permits)
    /\ permits' = permits - 1
    /\ task_pc' = [task_pc EXCEPT ![i] = "check"]
    /\ UNCHANGED <<discover_vars, analyze_vars, language_vars, section_vars>>
    /\ UNCHANGED <<max_concurrent, visited_urls, pc, run, max_pages, discovery,
                   discovered_urls, doc_urls, outcome, requests,
                   visited_at_start, scraped_pages, overtaken>>

Return_keeping_permit(i, value) ==
    /\ task_pc' = [task_pc EXCEPT ![i] = "done"]
    /\ outcome' = [outcome EXCEPT ![i] = value]
    /\ permits' = permits
    /\ overtaken' = (overtaken \/ \E j \in 1 .. i - 1 : task_pc[j] /= "done")

\* the task returns: its permit is dropped
Return(i, value) ==
    /\ task_pc' = [task_pc EXCEPT ![i] = "done"]
    /\ outcome' = [outcome EXCEPT ![i] = value]
    /\ permits' = permits + 1
    /\ overtaken' = (overtaken \/ \E j \in 1 .. i - 1 : task_pc[j] /= "done")

contains_never(visited, url) == FALSE

\* `visited.contains(&url)`
contains(visited, url) == url \in visited

\* `self.visited_urls.lock().await` is over: the first critical section
CheckVisited(i) ==
    /\ pc = "fanout"
    /\ task_pc[i] = "check"
    /\ IF contains(visited_urls, doc_urls[i])
       THEN Return(i, Skipped("visited", doc_urls[i]))
       ELSE /\ task_pc' = [task_pc EXCEPT ![i] = "insert"]
            /\ UNCHANGED <<outcome, permits, overtaken>>
    /\ UNCHANGED <<discover_vars, analyze_vars, language_vars, section_vars>>
    /\ UNCHANGED <<max_concurrent, visited_urls, pc, run, max_pages, discovery,
                   discovered_urls, doc_urls, requests, visited_at_start,
                   scraped_pages>>

\* the second `self.visited_urls.lock().await` is over: the second critical
\* section, up to the start of the delay
InsertVisited(i) ==
    /\ pc = "fanout"
    /\ task_pc[i] = "insert"
    /\ visited_urls' = visited_urls \cup {doc_urls[i]}
    /\ task_pc' = [task_pc EXCEPT ![i] = "sleep"]
    /\ UNCHANGED <<discover_vars, analyze_vars, language_vars, section_vars>>
    /\ UNCHANGED <<max_concurrent, pc, run, max_pages, discovery,
                   discovered_urls, doc_urls, permits, outcome, requests,
                   visited_at_start, scraped_pages, overtaken>>

\* `sleep(self.delay).await` is over and `self.client.get(&url).send()` is issued
Sleep(i) ==
    /\ pc = "fanout"
    /\ task_pc[i] = "sleep"
    /\ task_pc' = [task_pc EXCEPT ![i] = "send"]
    /\ requests' = requests + 1
    /\ UNCHANGED <<discover_vars, analyze_vars, language_vars, section_vars>>
    /\ UNCHANGED <<max_concurrent, visited_urls, pc, run, max_pages, discovery,
                   discovered_urls, doc_urls, permits, outcome,
                   visited_at_start, scraped_pages, overtaken>>

\* `.send().await` is over: the match on its result
Send(i) ==
    /\ pc = "fanout"
    /\ task_pc[i] = "send"
    /\ \E result \in {"error", "status", "success"} :
          IF result = "success"
          THEN /\ task_pc' = [task_pc EXCEPT ![i] = "text"]
               /\ UNCHANGED <<outcome, permits, overtaken>>
          ELSE Return(i, Skipped(result, doc_urls[i]))
    /\ UNCHANGED <<discover_vars, analyze_vars, language_vars, section_vars>>
    /\ UNCHANGED <<max_concurrent, visited_urls, pc, run, max_pages, discovery,
                   discovered_urls, doc_urls, requests, visited_at_start,
                   scraped_pages>>

too_short_for_code(content_len) == content_len < 10

\* `content.len() < 100`
too_short(content_len) == content_len < MIN_CONTENT_LENGTH

\* `response.text().await` is over: the extraction and the content check
Text(i) ==
    /\ pc = "fanout"
    /\ task_pc[i] = "text"
    /\ \/ Return(i, Skipped("body_error", doc_urls[i]))
       \/ \E body \in PageBodies :
             IF too_short(body.content_len)
             THEN Return(i, SkippedShort(doc_urls[i], body))
             ELSE Return(i, Page(doc_urls[i], body))
    /\ UNCHANGED <<discover_vars, analyze_vars, language_vars, section_vars>>
    /\ UNCHANGED <<max_concurrent, visited_urls, pc, run, max_pages, discovery,
                   discovered_urls, doc_urls, requests, visited_at_start,
                   scraped_pages>>

all_or_nothing(results) ==
    IF \E i \in 1 .. Len(results) : results[i].kind /= "page" THEN <<>> ELSE results

filter_map_reversed(results) ==
    SelectSeq([k \in 1 .. Len(results) |-> results[Len(results) + 1 - k]],
              LAMBDA result : result.kind = "page")

RECURSIVE filter_map(_)
\* `results.into_iter().filter_map(|x| x).collect()`
filter_map(results) ==
    IF results = <<>> THEN <<>>
    ELSE IF Head(results).kind = "page"
         THEN <<Head(results)>> \o filter_map(Tail(results))
         ELSE filter_map(Tail(results))

\* `join_all(tasks).await` is ready once every task has returned
JoinAll ==
    /\ pc = "fanout"
    /\ \A i \in Tasks : task_pc[i] = "done"
    /\ scraped_pages' = filter_map(outcome)
    /\ pc' = "idle"
    /\ UNCHANGED <<discover_vars, analyze_vars, language_vars, section_vars>>
    /\ UNCHANGED <<max_concurrent, visited_urls, run, max_pages, discovery,
                   discovered_urls, doc_urls, permits, task_pc, outcome,
                   requests, visited_at_start, overtaken>>

DiscoverIdle ==
    /\ nav_response = [kind |-> "error", nav |-> <<>>]
    /\ nav_base = base_url
    /\ nav_limit = 0
    /\ nav_links = <<>>
    /\ nav_called = FALSE

AnalyzeIdle ==
    /\ an_pages = <<>>
    /\ analysis = <<>>
    /\ an_called = FALSE

LanguageIdle ==
    /\ code_classes = <<>>
    /\ language = ""
    /\ lang_called = FALSE

SectionIdle ==
    /\ breadcrumbs = <<>>
    /\ path_segments = <<"">>
    /\ section_info = <<<<>>, <<>>>>
    /\ sec_called = FALSE

vars == <<crawl_vars, discover_vars, analyze_vars, language_vars, section_vars>>

Init == CrawlInit /\ DiscoverIdle /\ AnalyzeIdle /\ LanguageIdle /\ SectionIdle

Next ==
    \/ ScrapeSitePanic
    \/ ScrapeSiteStart
    \/ \E i \in Tasks : Acquire(i)
    \/ \E i \in Tasks : CheckVisited(i)
    \/ \E i \in Tasks : InsertVisited(i)
    \/ \E i \in Tasks : Sleep(i)
    \/ \E i \in Tasks : Send(i)
    \/ \E i \in Tasks : Text(i)
    \/ JoinAll

\* one scraper, its calls of scrape_documentation_site and their page tasks
Spec == Init /\ [][Next]_vars

\* The runtime polls a task whose await is ready: a permit that is free is
\* handed out, the lock of visited_urls is never held across an await, the
\* delay elapses, and each request ends with a response or an error (the
\* client has a timeout).  Nothing obliges the caller to call again.
Fairness ==
    /\ \A i \in 1 .. MaxPagesBound :
          /\ WF_vars(i \in Tasks /\ Acquire(i))
          /\ WF_vars(i \in Tasks /\ CheckVisited(i))
          /\ WF_vars(i \in Tasks /\ InsertVisited(i))
          /\ WF_vars(i \in Tasks /\ Sleep(i))
          /\ WF_vars(i \in Tasks /\ Send(i))
          /\ WF_vars(i \in Tasks /\ Text(i))
    /\ WF_vars(JoinAll)

\* the crawl under a runtime that keeps polling
FairSpec == Init /\ [][Next]_vars /\ Fairness

(* ------------------- discover_documentation_links alone ---------------- *)

CrawlIdle ==
    /\ CrawlInit
    /\ max_concurrent = 1

DiscoverInit ==
    /\ CrawlIdle
    /\ AnalyzeIdle
    /\ LanguageIdle
    /\ SectionIdle
    /\ nav_response \in Responses
    /\ nav_base \in {Url(DocsHost, "/"), Url(OtherHost, "/a")}
    /\ nav_limit \in 0 .. MaxNav
    /\ nav_links = <<>>
    /\ nav_called = FALSE

DiscoverLinks ==
    /\ ~nav_called
    /\ nav_links' = discover_documentation_links(nav_response, nav_base, nav_limit)
    /\ nav_called' = TRUE
    /\ UNCHANGED <<nav_response, nav_base, nav_limit>>
    /\ UNCHANGED <<crawl_vars, analyze_vars, language_vars, section_vars>>

\* discover_documentation_links on every response, base URL and limit
SpecDiscover == DiscoverInit /\ [][DiscoverLinks]_vars

(* ----------------------- analyze_documentation alone ------------------- *)

\* pages as scrape_documentation_page builds them: the content is at least
\* MIN_CONTENT_LENGTH long
PageSamples ==
    { [content_len |-> 100, section |-> <<>>, tags |-> <<>>,
       code_examples |-> <<>>, api_endpoints |-> <<>>],
      [content_len |-> 101, section |-> <<"Guide">>, tags |-> <<"api">>,
       code_examples |-> <<"python">>, api_endpoints |-> <<"GET">>],
      [content_len |-> 150, section |-> <<"Guide">>, tags |-> <<"api", "tutorial">>,
       code_examples |-> <<"python", "text">>, api_endpoints |-> <<>>],
      [content_len |-> 250, section |-> <<"Api">>, tags |-> <<"reference">>,
       code_examples |-> <<"rust">>, api_endpoints |-> <<"GET", "POST">>] }

RECURSIVE sum(_)
\* Iterator::sum
sum(numbers) == IF numbers = <<>> THEN 0 ELSE Head(numbers) + sum(Tail(numbers))

\* the counting loops: `*map.entry(key).or_insert(0) += 1` for every key of
\* every page; keys[i] are the keys of page i
count_keys(keys) ==
    LET present == UNION {{keys[i][k] : k \in 1 .. Len(keys[i])} : i \in 1 .. Len(keys)}
    IN  [key \in present |->
            sum([i \in 1 .. Len(keys) |->
                    Cardinality({k \in 1 .. Len(keys[i]) : keys[i][k] = key})])]

average_rounded_up(total, count) ==
    IF count /= 0 THEN (total + count - 1) \div count ELSE 0

\* `if !content_lengths.is_empty() { sum / len } else { 0 }`
average(total, count) == IF count /= 0 THEN total \div count ELSE 0

analyze_documentation(pages) ==
    IF pages = <<>> THEN <<>>
    ELSE [ total_pages |-> Len(pages),
           sections |-> count_keys([i \in 1 .. Len(pages) |-> pages[i].section]),
           tags |-> count_keys([i \in 1 .. Len(pages) |-> pages[i].tags]),
           total_code_examples |->
               sum([i \in 1 .. Len(pages) |-> Len(pages[i].code_examples)]),
           programming_languages |-> count_keys([i \in 1 .. Len(pages) |-> pages[i].code_examples]),
           total_api_endpoints |->
               sum([i \in 1 .. Len(pages) |-> Len(pages[i].api_endpoints)]),
           avg_content_length |->
               average(sum([i \in 1 .. Len(pages) |-> pages[i].content_len]),
                       Len(pages)) ]

AnalyzeInit ==
    /\ CrawlIdle
    /\ DiscoverIdle
    /\ LanguageIdle
    /\ SectionIdle
    /\ an_pages \in SeqsUpTo(PageSamples, MaxAnalyzed)
    /\ analysis = <<>>
    /\ an_called = FALSE

Analyze ==
    /\ ~an_called
    /\ analysis' = analyze_documentation(an_pages)
    /\ an_called' = TRUE
    /\ UNCHANGED an_pages
    /\ UNCHANGED <<crawl_vars, discover_vars, language_vars, section_vars>>

\* analyze_documentation on every page list
SpecAnalyze == AnalyzeInit /\ [][Analyze]_vars

(* ------------- language detection of extract_code_examples ------------ *)

\* A class name is a record: prefixed tells whether the text starts with
\* "language-", name is the text after that prefix (the whole text when there
\* is none).  code_classes lists the classes in the order classes() yields them.
Class(prefixed, name) == [prefixed |-> prefixed, name |-> name]

\* longest class list of a code element
MaxClasses == 3

ClassSamples ==
    { Class(TRUE, "rust"), Class(TRUE, "shell"), Class(FALSE, "python"),
      Class(FALSE, "bash"), Class(FALSE, "hljs") }

\* ["python", "javascript", "java", "rust", "go", "cpp", "bash"]
LanguageWhitelist == {"python", "javascript", "java", "rust", "go", "cpp", "bash"}

\* `class.starts_with("language-")`
starts_with_language(class) == class.prefixed

\* the predicate given to find()
is_language_class(class) ==
    starts_with_language(class) \/ class.name \in LanguageWhitelist

RECURSIVE find(_)
\* Iterator::find with that predicate: the first class it accepts
find(classes) ==
    IF classes = <<>> THEN <<>>
    ELSE IF is_language_class(Head(classes)) THEN <<Head(classes)>>
    ELSE find(Tail(classes))

\* `class.strip_prefix("language-")` on a class that has the prefix, the class
\* itself otherwise
strip_prefix(class) == class.name

\* find(..).map(..).unwrap_or("text")
detect_language(classes) ==
    LET found == find(classes)
    IN  IF found = <<>> THEN "text" ELSE strip_prefix(found[1])

LanguageInit ==
    /\ CrawlIdle
    /\ DiscoverIdle
    /\ AnalyzeIdle
    /\ SectionIdle
    /\ code_classes \in SeqsUpTo(ClassSamples, MaxClasses)
    /\ language = ""
    /\ lang_called = FALSE

DetectLanguage ==
    /\ ~lang_called
    /\ language' = detect_language(code_classes)
    /\ lang_called' = TRUE
    /\ UNCHANGED code_classes
    /\ UNCHANGED <<crawl_vars, discover_vars, analyze_vars, section_vars>>

\* the language detection on every class list
SpecLanguage == LanguageInit /\ [][DetectLanguage]_vars

(* -------------------------- extract_section_info ----------------------- *)

\* most breadcrumb elements of a document
MaxCrumbs == 3
\* most segments of a URL path
MaxSegments == 3

\* trimmed texts of breadcrumb elements; "" is an element without text
CrumbTexts == {"", "Docs", "API"}
\* path segments; "" is the segment after a trailing slash
SegmentTexts == {"", "guide", "api-ref"}

RECURSIVE filter_non_empty(_)
\* `.filter(|s| !s.is_empty())`
filter_non_empty(texts) ==
    IF texts = <<>> THEN <<>>
    ELSE IF Head(texts) /= "" THEN <<Head(texts)>> \o filter_non_empty(Tail(texts))
    ELSE filter_non_empty(Tail(texts))

\* `s.replace('-', " ").replace('_', " ")` and capitalize_words, on the
\* segments of SegmentTexts
capitalize_segment(segment) ==
    CASE segment = "guide" -> "Guide"
      [] segment = "api-ref" -> "Api Ref"
      [] OTHER -> ""

subsection_from_two(count) == count > 1

\* `breadcrumbs.len() > 2`, `path_segments.len() > 2`
has_subsection(count) == count > 2

\* `list.get(list.len() - 2)` and `list.last()` when has_subsection
section_pair(list) ==
    << <<list[Len(list) - 1]>>,
       IF has_subsection(Len(list)) THEN <<list[Len(list)]>> ELSE <<>> >>

extract_section_info(texts, segments) ==
    LET crumbs == filter_non_empty(texts)
    IN  IF Len(crumbs) > 1 THEN section_pair(crumbs)
        ELSE IF Len(segments) > 1
        THEN section_pair([k \in 1 .. Len(segments) |-> capitalize_segment(segments[k])])
        ELSE << <<>>, <<>> >>

SectionInit ==
    /\ CrawlIdle
    /\ DiscoverIdle
    /\ AnalyzeIdle
    /\ LanguageIdle
    /\ breadcrumbs \in SeqsUpTo(CrumbTexts, MaxCrumbs)
    /\ path_segments \in SeqsUpTo(SegmentTexts, MaxSegments)
    /\ section_info = << <<>>, <<>> >>
    /\ sec_called = FALSE

ExtractSection ==
    /\ ~sec_called
    /\ section_info' = extract_section_info(breadcrumbs, path_segments)
    /\ sec_called' = TRUE
    /\ UNCHANGED <<breadcrumbs, path_segments>>
    /\ UNCHANGED <<crawl_vars, discover_vars, analyze_vars, language_vars>>

\* extract_section_info on every breadcrumb list and URL path
SpecSection == SectionInit /\ [][ExtractSection]_vars

(* ------------------------------- claims -------------------------------- *)

\* scrape_documentation_site has returned its list
Returned == pc = "idle" /\ run >= 1

TasksOf(url) == {i \in Tasks : doc_urls[i] = url}

PastClaim(i) == task_pc[i] \notin {"acquire", "check", "insert"}

\* task i went on after the visited check instead of returning None there
Proceeded(i) ==
    \/ task_pc[i] \in {"sleep", "send", "text"}
    \/ task_pc[i] = "done" /\ outcome[i].kind /= "visited"

\* task i has sent its request
Fetched(i) ==
    \/ task_pc[i] \in {"send", "text"}
    \/ task_pc[i] = "done" /\ outcome[i].kind \notin {"visited", "pending"}

InFlight == {i \in Tasks : task_pc[i] \in {"check", "insert", "sleep", "send", "text"}}

RecordsOf(url) == {k \in 1 .. Len(scraped_pages) : scraped_pages[k].url = url}

\* C1: of the tasks of one call that have the same URL, not visited when the
\* call began, at most one goes on past the visited check, and once all of
\* them are past it exactly one has gone on and the others returned None.
C1_ClaimIsAtomic ==
    \A url \in Urls \ visited_at_start :
        /\ Cardinality({i \in TasksOf(url) : Proceeded(i)}) <= 1
        /\ (TasksOf(url) /= {} /\ \A i \in TasksOf(url) : PastClaim(i))
              => Cardinality({i \in TasksOf(url) : Proceeded(i)}) = 1

\* C2: in one call every URL is fetched by at most one page task and has at
\* most one record in the returned list.
C2_FetchedAtMostOnce ==
    \A url \in Urls :
        /\ Cardinality({i \in TasksOf(url) : Fetched(i)}) <= 1
        /\ Cardinality(RecordsOf(url)) <= 1

\* C3: the page tasks that hold a permit (past the acquire, not yet returned)
\* are never more than max_concurrent.
C3_InFlightBounded == Cardinality(InFlight) <= max_concurrent

C3_Witness ==
    /\ pc = "fanout"
    /\ max_concurrent >= 1
    /\ Cardinality(InFlight) = max_concurrent
    /\ \E i \in Tasks : task_pc[i] = "acquire"
    /\ \E i \in Tasks : task_pc[i] = "text"

\* C4: with max_pages >= 1 the frontier is the base URL followed by the
\* discovered links, which are at most max_pages - 1; it has at most
\* max_pages entries and the call sends at most max_pages requests besides
\* the discovery request; with max_pages = 1 the frontier is the base URL
\* alone and at most one page request is sent.
C4_FrontierCapped ==
    (run >= 1 /\ pc /= "panicked" /\ max_pages >= 1) =>
        /\ doc_urls = <<base_url>> \o discovered_urls
        /\ Len(discovered_urls) <= max_pages - 1
        /\ Len(doc_urls) <= max_pages
        /\ Cardinality({i \in Tasks : Fetched(i)}) <= max_pages
        /\ requests <= 1 + max_pages
        /\ max_pages = 1 => (doc_urls = <<base_url>> /\ requests <= 2)

C4_Witness ==
    /\ Returned
    /\ max_pages = 1
    /\ discovery = "ok"
    /\ doc_urls = <<base_url>>
    /\ requests = 2

TransportFailures == {"error", "status", "body_error"}

\* C5: the call returns only when every page task has returned, whatever
\* failed, and the returned list holds the record of every task that
\* returned a page and nothing else.
C5_FailuresContained ==
    Returned =>
        /\ \A i \in Tasks : task_pc[i] = "done"
        /\ \A i \in Tasks :
              outcome[i].kind = "page" => \E k \in 1 .. Len(scraped_pages) : scraped_pages[k] = outcome[i]
        /\ Len(scraped_pages) = Cardinality({i \in Tasks : outcome[i].kind = "page"})

C5_Witness ==
    /\ Returned
    /\ \E i, j \in Tasks :
          /\ i < j
          /\ outcome[i].kind \in TransportFailures
          /\ outcome[j].kind = "page"
          /\ \E k \in 1 .. Len(scraped_pages) : scraped_pages[k] = outcome[j]

\* C6: every returned record has content of length at least 100; a task whose
\* page has shorter content returns None and its URL stays visited.
C6_ShortPagesSkipped ==
    /\ \A k \in 1 .. Len(scraped_pages) : scraped_pages[k].content_len >= 100
    /\ \A i \in Tasks :
          /\ outcome[i].kind = "page" => outcome[i].content_len >= 100
          /\ outcome[i].kind = "short" => doc_urls[i] \in visited_urls

C6_Witness ==
    /\ Returned
    /\ \E i \in Tasks :
          /\ outcome[i].kind = "short"
          /\ outcome[i].content_len = 99
          /\ outcome[i].code_examples > 0
          /\ doc_urls[i] \in visited_urls
          /\ RecordsOf(doc_urls[i]) = {}

\* C8 as claimed: every call of scrape_documentation_site starts with an empty
\* visited set.
C8_StartsEmpty == run >= 1 => visited_at_start = {}

\* C8 amended: the visited set is the scraper's and is never cleared: it only
\* grows, and a task whose URL was visited when the call began returns None
\* at the check, sends no request and gives no record.
C8_VisitedOutlivesRun ==
    /\ visited_at_start \subseteq visited_urls
    /\ \A i \in Tasks :
          doc_urls[i] \in visited_at_start =>
              /\ task_pc[i] /= "insert"
              /\ ~Proceeded(i)
              /\ ~Fetched(i)
              /\ task_pc[i] = "done" => outcome[i].kind = "visited"
    /\ \A url \in visited_at_start : RecordsOf(url) = {}

C8_Witness ==
    /\ run = 2
    /\ Returned
    /\ base_url \in visited_at_start
    /\ doc_urls /= <<>>
    /\ outcome[1].kind = "visited"
    /\ scraped_pages = <<>>

DiscoveryCameUpEmpty == discovery \in TransportFailures \/ discovered_urls = <<>>

\* C9 as claimed: when discovery fails or finds no link the frontier is the
\* base URL alone.
C9_BaseOnly ==
    (run >= 1 /\ pc /= "panicked" /\ DiscoveryCameUpEmpty) => doc_urls = <<base_url>>

\* C9 amended: with max_pages >= 1, when discovery fails or finds no link the
\* frontier is the base URL alone and the call returns only after the base
\* URL's page task has run.
C9_BaseOnlyFromOnePage ==
    (run >= 1 /\ pc /= "panicked" /\ max_pages >= 1 /\ DiscoveryCameUpEmpty) =>
        /\ discovered_urls = <<>>
        /\ doc_urls = <<base_url>>
        /\ Len(task_pc) = 1
        /\ Returned => task_pc[1] = "done"

C9_Witness ==
    /\ Returned
    /\ discovery = "error"
    /\ doc_urls = <<base_url>>
    /\ outcome[1].kind = "page"
    /\ Len(scraped_pages) = 1

\* the navigation elements whose href resolves to a URL of the base URL's host
Eligible(elements, base) ==
    {j \in 1 .. Len(elements) :
        /\ elements[j].kind \in {"path", "absolute"}
        /\ (IF elements[j].kind = "path" THEN base.host ELSE elements[j].host) = base.host}

Resolved(element, base) ==
    IF element.kind = "path" THEN Url(base.host, element.path)
    ELSE Url(element.host, element.path)

\* C7: discover_documentation_links returns at most limit links, all of the
\* base URL's host: the k-th link is the k-th navigation element, in document
\* order, that has an href resolving to that host, and elements without href
\* or with an unresolvable one are passed over.
C7_DiscoveredLinks ==
    nav_called =>
        LET elements == nav_response.nav
            eligible == Eligible(elements, nav_base)
        IN  /\ Len(nav_links) <= nav_limit
            /\ \A k \in 1 .. Len(nav_links) : nav_links[k].host = nav_base.host
            /\ Len(nav_links) = Min(nav_limit, Cardinality(eligible))
            /\ \A k \in 1 .. Len(nav_links) :
                  \E j \in eligible :
                      /\ Cardinality({e \in eligible : e <= j}) = k
                      /\ nav_links[k] = Resolved(elements[j], nav_base)

C7_Witness ==
    /\ nav_called
    /\ Len(nav_response.nav) >= 2
    /\ nav_response.nav[1].kind \in {"none", "invalid"}
    /\ nav_response.nav[2].kind = "path"
    /\ nav_links = <<Url(nav_base.host, nav_response.nav[2].path)>>

\* C10: analyze_documentation gives an empty map for an empty list; otherwise
\* total_pages is the number of pages, total_code_examples and
\* total_api_endpoints count the code examples and the endpoints of all
\* pages, and avg_content_length is the floor of the mean content length.
C10_Statistics ==
    an_called =>
        IF an_pages = <<>> THEN DOMAIN analysis = {}
        ELSE LET n == Len(an_pages)
                 examples == UNION {{<<i, k>> : k \in 1 .. Len(an_pages[i].code_examples)} :
                                    i \in 1 .. n}
                 endpoints == UNION {{<<i, k>> : k \in 1 .. Len(an_pages[i].api_endpoints)} :
                                     i \in 1 .. n}
                 characters == UNION {{<<i, k>> : k \in 1 .. an_pages[i].content_len} :
                                      i \in 1 .. n}
             IN  /\ analysis.total_pages = n
                 /\ analysis.total_code_examples = Cardinality(examples)
                 /\ analysis.total_api_endpoints = Cardinality(endpoints)
                 /\ analysis.avg_content_length * n <= Cardinality(characters)
                 /\ Cardinality(characters) < (analysis.avg_content_length + 1) * n

C10_Witness ==
    /\ an_called
    /\ Len(an_pages) = 2
    /\ analysis.total_pages = 2
    /\ analysis.total_code_examples = 3
    /\ analysis.total_api_endpoints = 1
    /\ analysis.avg_content_length = 125

ClassesOf(classes) == {classes[k] : k \in 1 .. Len(classes)}

\* C11: the detected language is the X of a class language-X when the element
\* has one, wherever it stands in the class list; otherwise a whitelisted
\* class of the element when it has one; otherwise text.
C11_PrefixBeforeWhitelist ==
    lang_called =>
        LET prefixed == {c \in ClassesOf(code_classes) : c.prefixed}
            listed == {c \in ClassesOf(code_classes) :
                          ~c.prefixed /\ c.name \in LanguageWhitelist}
        IN  IF prefixed /= {} THEN language \in {c.name : c \in prefixed}
            ELSE IF listed /= {} THEN language \in {c.name : c \in listed}
            ELSE language = "text"

NonEmptyCrumbs == SelectSeq(breadcrumbs, LAMBDA text : text /= "")

\* the segment as the section shows it: hyphens as spaces, words capitalized
Shown(segment) ==
    IF segment = "guide" THEN "Guide" ELSE IF segment = "api-ref" THEN "Api Ref" ELSE ""

\* C12: with 2 or more non-empty breadcrumbs the section is the second-to-last
\* of them and the subsection the last one when there are 3 or more; with
\* fewer, and 2 or more path segments, the section is the second-to-last
\* segment and the subsection the last one when there are 3 or more; otherwise
\* both are unset.  The subsection is never set while the section is unset.
C12_SectionInfo ==
    sec_called =>
        LET n == Len(NonEmptyCrumbs)
            m == Len(path_segments)
            section == section_info[1]
            subsection == section_info[2]
        IN  /\ n >= 2 =>
                  /\ section = <<NonEmptyCrumbs[n - 1]>>
                  /\ subsection = IF n >= 3 THEN <<NonEmptyCrumbs[n]>> ELSE <<>>
            /\ (n < 2 /\ m >= 2) =>
                  /\ section = <<Shown(path_segments[m - 1])>>
                  /\ subsection = IF m >= 3 THEN <<Shown(path_segments[m])>> ELSE <<>>
            /\ (n < 2 /\ m < 2) => (section = <<>> /\ subsection = <<>>)
            /\ section = <<>> => subsection = <<>>

C12_Witness ==
    /\ sec_called
    /\ Len(breadcrumbs) = 3
    /\ Len(NonEmptyCrumbs) = 2
    /\ Len(path_segments) = 3
    /\ section_info = << <<"Docs">>, <<>> >>

\* C13: every permit taken is held by a task that has not returned, the call
\* returns only when every task has returned and every permit is back, and
\* with max_concurrent >= 1 a call that has started its page tasks returns.
C13_Terminates ==
    /\ []((run >= 1 /\ pc /= "panicked") =>
             permits + Cardinality(InFlight) = max_concurrent)
    /\ [](Returned =>
             /\ \A i \in Tasks : task_pc[i] = "done"
             /\ permits = max_concurrent)
    /\ (pc = "fanout" /\ max_concurrent >= 1) ~> (pc = "idle")

C13_Witness ==
    /\ Returned
    /\ max_concurrent = 1
    /\ Len(doc_urls) = 2
    /\ permits = 1
    /\ outcome[1].kind = "short"
    /\ outcome[2].kind = "visited"

\* C14: the returned list follows the frontier, not the order in which the
\* tasks returned: its records are those of tasks at increasing frontier
\* positions, so their URLs are a subsequence of the frontier.
C14_FrontierOrder ==
    Returned =>
        \E position \in [1 .. Len(scraped_pages) -> Tasks] :
            /\ \A k, l \in 1 .. Len(scraped_pages) : k < l => position[k] < position[l]
            /\ \A k \in 1 .. Len(scraped_pages) :
                  /\ scraped_pages[k] = outcome[position[k]]
                  /\ scraped_pages[k].url = doc_urls[position[k]]

C14_Witness ==
    /\ Returned
    /\ overtaken
    /\ Len(scraped_pages) = 2
    /\ scraped_pages[1].url = base_url
    /\ scraped_pages[2].url /= base_url

====
